---- MODULE Spec2Model ----
(***************************************************************************)
(* Model of pippiroh: the P2PActor message relay (src/src/p2p.rs and the   *)
(* copy of it in src/src/main.rs), the bincode wire codec it uses, and the *)
(* base-32 ticket text encoding.                                           *)
(***************************************************************************)
EXTENDS Integers, Sequences, FiniteSets, TLC

(***************************************************************************)
(* Bounds of the model.                                                    *)
(***************************************************************************)
\* Subscribe requests, SendMessage requests and Received events explored
\* in one run, all kinds together
MaxRequests == 4
\* width of a NodeId / PublicKey on the wire (32 in iroh)
NodeIdLen == 1
\* width of a TopicId on the wire (32 in iroh-gossip)
TopicLen == 2
\* longest list of nodes in a ticket drawn as input
MaxNodes == 2
\* console lines read in one run, both peers together
MaxLines == 1
\* longest history a Bootstrap Responder serves
MaxHistory == 2
\* reads in which a Bootstrap Client takes a response
MaxReads == 3

(***************************************************************************)
(* Generic helpers on sequences of bytes.                                  *)
(***************************************************************************)
Byte == 0..255

Take(s, n) == SubSeq(s, 1, n)

Drop(s, n) == SubSeq(s, n + 1, Len(s))

RECURSIVE Count(_, _)
Count(s, x) ==
    IF s = <<>> THEN 0
    ELSE (IF Head(s) = x THEN 1 ELSE 0) + Count(Tail(s), x)

IsPrefix(s, t) == Len(s) <= Len(t) /\ Take(t, Len(s)) = s

\* the element of a one-element set: { e(x) : x \in {v} } names the value v
Only(S) == CHOOSE x \in S : TRUE

(***************************************************************************)
(* MessageBody (src/src/lib.rs) and its values used as inputs.             *)
(***************************************************************************)
None == [some |-> FALSE, val |-> <<>>]

Some(v) == [some |-> TRUE, val |-> v]

NodeIds == { [i \in 1..NodeIdLen |-> b] : b \in {7, 9} }

\* "" , "h" , "hi"
Texts == { <<>>, <<104>>, <<104, 105>> }

MessageBody == [from : {None} \cup { Some(n) : n \in NodeIds }, text : Texts]

\* the messages drawn as inputs of publish and as gossip payloads
Msgs == { [from |-> Some([i \in 1..NodeIdLen |-> 7]), text |-> <<104, 105>>],
          [from |-> None, text |-> <<104>>] }

(***************************************************************************)
(* bincode, BINCODE_CONFIG = bincode::config::standard(): variable-width   *)
(* integers, little endian, no limit.  A decoder returns the value and the *)
(* unread rest of the input; it never looks at what follows the value.     *)
(***************************************************************************)
Fail == [ok |-> FALSE, val |-> <<>>, rest |-> <<>>]

Ok(v, rest) == [ok |-> TRUE, val |-> v, rest |-> rest]

RECURSIVE LittleEndian(_)
LittleEndian(bs) ==
    IF bs = <<>> THEN 0 ELSE Head(bs) + 256 * LittleEndian(Tail(bs))

\* varint: u < 251 is one byte; 251, 252, 253 announce a u16, u32, u64
EncodeVarint(n) ==
    IF n < 251 THEN <<n>> ELSE <<251, n % 256, (n \div 256) % 256>>

DecodeVarint(bs) ==
    IF bs = <<>> THEN Fail
    ELSE LET b == Head(bs)
             w == CASE b = 251 -> 2 [] b = 252 -> 4 [] b = 253 -> 8 [] OTHER -> 0
         IN  IF b < 251 THEN Ok(b, Tail(bs))
             ELSE IF b > 253 THEN Fail
             ELSE IF Len(bs) < 1 + w THEN Fail
             ELSE Ok(LittleEndian(SubSeq(bs, 2, 1 + w)), Drop(bs, 1 + w))

\* a fixed-size array of n bytes: no length prefix
DecodeArray(bs, n) ==
    IF Len(bs) < n THEN Fail ELSE Ok(Take(bs, n), Drop(bs, n))

\* String: varint length, then that many bytes of UTF-8 (ASCII here)
EncodeString(s) == EncodeVarint(Len(s)) \o s

DecodeString(bs) ==
    Only({ IF ~l.ok THEN Fail
           ELSE IF Len(l.rest) < l.val THEN Fail
           ELSE IF \E i \in 1..l.val : l.rest[i] > 127 THEN Fail
           ELSE Ok(Take(l.rest, l.val), Drop(l.rest, l.val))
           : l \in {DecodeVarint(bs)} })

\* Option<NodeId>: tag 0, or tag 1 and the key
EncodeOptionNodeId(o) == IF o.some THEN <<1>> \o o.val ELSE <<0>>

DecodeOptionNodeId(bs) ==
    IF bs = <<>> THEN Fail
    ELSE IF Head(bs) = 0 THEN Ok(None, Tail(bs))
    ELSE IF Head(bs) = 1
         THEN Only({ IF k.ok THEN Ok(Some(k.val), k.rest) ELSE Fail
                     : k \in {DecodeArray(Tail(bs), NodeIdLen)} })
    ELSE Fail

\* bincode::serde::encode_to_vec(msg.0, BINCODE_CONFIG)
EncodeMessageBody(m) == EncodeOptionNodeId(m.from) \o EncodeString(m.text)

\* bincode::serde::decode_from_slice(&message.content, BINCODE_CONFIG)
DecodeMessageBody(bs) ==
    Only({ IF ~f.ok THEN Fail
           ELSE Only({ IF ~t.ok THEN Fail
                       ELSE Ok([from |-> f.val, text |-> t.val], t.rest)
                       : t \in {DecodeString(f.rest)} })
           : f \in {DecodeOptionNodeId(bs)} })

(***************************************************************************)
(* Ticket { topic: TopicId, nodes: Vec<NodeAddr> } and its bincode layout. *)
(* NodeAddr { node_id, relay_url: Option<RelayUrl>, direct_addresses:      *)
(* BTreeSet<SocketAddr> }; a SocketAddr is an enum tag (0 = V4), four      *)
(* address bytes and the port as a varint.                                 *)
(***************************************************************************)
SocketAddrs == { [ip |-> <<10, 0, 0, 1>>, port |-> 80],
                 [ip |-> <<10, 0, 0, 2>>, port |-> 300] }

SomeUrl == [some |-> TRUE, val |-> <<114>>]

NodeAddrs ==
    { [node_id |-> [i \in 1..NodeIdLen |-> 7], relay_url |-> None,
       direct_addresses |-> {}],
      [node_id |-> [i \in 1..NodeIdLen |-> 9], relay_url |-> SomeUrl,
       direct_addresses |-> {[ip |-> <<10, 0, 0, 1>>, port |-> 80]}],
      [node_id |-> [i \in 1..NodeIdLen |-> 7], relay_url |-> None,
       direct_addresses |-> SocketAddrs] }

Topics == { [i \in 1..TopicLen |-> (37 * i + 200) % 256],
            [i \in 1..TopicLen |-> 0] }

SeqsUpTo(S, n) == UNION { [1..k -> S] : k \in 0..n }

\* the tickets drawn as inputs
Tickets == [topic : Topics, nodes : SeqsUpTo(NodeAddrs, MaxNodes)]

RECURSIVE LexLeq(_, _)
LexLeq(a, b) ==
    IF a = <<>> THEN TRUE
    ELSE IF b = <<>> THEN FALSE
    ELSE IF Head(a) # Head(b) THEN Head(a) < Head(b)
    ELSE LexLeq(Tail(a), Tail(b))

\* the order of SocketAddr: address first, then port
AddrLeq(a, b) == LexLeq(a.ip \o <<a.port>>, b.ip \o <<b.port>>)

\* BTreeSet iterates in ascending order
RECURSIVE Sorted(_)
Sorted(S) ==
    IF S = {} THEN <<>>
    ELSE LET a == CHOOSE x \in S : \A y \in S : AddrLeq(x, y)
         IN  <<a>> \o Sorted(S \ {a})

RECURSIVE Flatten(_)
Flatten(ss) == IF ss = <<>> THEN <<>> ELSE Head(ss) \o Flatten(Tail(ss))

EncodeSocketAddr(a) == <<0>> \o a.ip \o EncodeVarint(a.port)

DecodeSocketAddr(bs) ==
    Only({ IF ~t.ok \/ t.val # 0 THEN Fail
           ELSE Only({ IF ~ip.ok THEN Fail
                       ELSE Only({ IF ~pt.ok \/ pt.val > 65535 THEN Fail
                                   ELSE Ok([ip |-> ip.val, port |-> pt.val],
                                           pt.rest)
                                   : pt \in {DecodeVarint(ip.rest)} })
                       : ip \in {DecodeArray(t.rest, 4)} })
           : t \in {DecodeVarint(bs)} })

\* n SocketAddr decoded one after the other
RECURSIVE DecodeSocketAddrs(_, _)
DecodeSocketAddrs(bs, n) ==
    IF n = 0 THEN Ok(<<>>, bs)
    ELSE Only({ IF ~x.ok THEN Fail
                ELSE Only({ IF ~r.ok THEN Fail
                            ELSE Ok(<<x.val>> \o r.val, r.rest)
                            : r \in {DecodeSocketAddrs(x.rest, n - 1)} })
                : x \in {DecodeSocketAddr(bs)} })

\* BTreeSet<SocketAddr>: varint length, then the elements
DecodeSocketAddrSet(bs) ==
    Only({ IF ~l.ok THEN Fail
           ELSE IF Len(l.rest) < l.val THEN Fail
           ELSE Only({ IF ~d.ok THEN Fail
                       ELSE Ok({ d.val[i] : i \in 1..Len(d.val) }, d.rest)
                       : d \in {DecodeSocketAddrs(l.rest, l.val)} })
           : l \in {DecodeVarint(bs)} })

EncodeOptionString(o) == IF o.some THEN <<1>> \o EncodeString(o.val) ELSE <<0>>

DecodeOptionString(bs) ==
    IF bs = <<>> THEN Fail
    ELSE IF Head(bs) = 0 THEN Ok(None, Tail(bs))
    ELSE IF Head(bs) = 1
         THEN Only({ IF u.ok THEN Ok(Some(u.val), u.rest) ELSE Fail
                     : u \in {DecodeString(Tail(bs))} })
    ELSE Fail

EncodeNodeAddr(a) ==
    a.node_id \o EncodeOptionString(a.relay_url)
        \o EncodeVarint(Cardinality(a.direct_addresses))
        \o Only({ Flatten([i \in 1..Len(as) |-> EncodeSocketAddr(as[i])])
                  : as \in {Sorted(a.direct_addresses)} })

DecodeNodeAddr(bs) ==
    Only({ IF ~k.ok THEN Fail
           ELSE Only({ IF ~u.ok THEN Fail
                       ELSE Only({ IF ~d.ok THEN Fail
                                   ELSE Ok([node_id |-> k.val,
                                            relay_url |-> u.val,
                                            direct_addresses |-> d.val],
                                           d.rest)
                                   : d \in {DecodeSocketAddrSet(u.rest)} })
                       : u \in {DecodeOptionString(k.rest)} })
           : k \in {DecodeArray(bs, NodeIdLen)} })

\* n NodeAddr decoded one after the other
RECURSIVE DecodeNodeAddrs(_, _)
DecodeNodeAddrs(bs, n) ==
    IF n = 0 THEN Ok(<<>>, bs)
    ELSE Only({ IF ~x.ok THEN Fail
                ELSE Only({ IF ~r.ok THEN Fail
                            ELSE Ok(<<x.val>> \o r.val, r.rest)
                            : r \in {DecodeNodeAddrs(x.rest, n - 1)} })
                : x \in {DecodeNodeAddr(bs)} })

\* Vec<NodeAddr>: varint length, then the elements
DecodeNodes(bs) ==
    Only({ IF ~l.ok THEN Fail
           ELSE IF Len(l.rest) < l.val THEN Fail
           ELSE DecodeNodeAddrs(l.rest, l.val)
           : l \in {DecodeVarint(bs)} })

\* Ticket::to_bytes: bincode::serde::encode_to_vec(self, BINCODE_CONFIG)
to_bytes(t) ==
    t.topic \o EncodeVarint(Len(t.nodes))
        \o Flatten([i \in 1..Len(t.nodes) |-> EncodeNodeAddr(t.nodes[i])])

NoTicket == [topic |-> <<>>, nodes |-> <<>>]

Err == [status |-> "err", val |-> NoTicket]

\* Ticket::from_bytes: decode_from_slice(..).map_err(Into::into).map(|t| t.0)
\* -- the count of bytes read (t.1) is dropped
from_bytes(bs) ==
    Only({ IF ~tp.ok THEN Err
           ELSE Only({ IF ~ns.ok THEN Err
                       ELSE [status |-> "ok",
                             val |-> [topic |-> tp.val, nodes |-> ns.val]]
                       : ns \in {DecodeNodes(tp.rest)} })
           : tp \in {DecodeArray(bs, TopicLen)} })

(***************************************************************************)
(* Ticket text: data_encoding::BASE32_NOPAD (RFC 4648 alphabet A-Z 2-7, no *)
(* padding, trailing bits must be zero) over ASCII codes.                  *)
(***************************************************************************)
Pow2(n) == 2 ^ n

Symbol(v) == IF v < 26 THEN 65 + v ELSE 50 + (v - 26)

SymbolValue(c) ==
    IF c \in 65..90 THEN c - 65
    ELSE IF c \in 50..55 THEN c - 50 + 26
    ELSE -1

At0(q, i) == IF i <= Len(q) THEN q[i] ELSE 0

\* BASE32_NOPAD.encode: symbol k (from 0) is bits 5k .. 5k+4 of the input,
\* the last symbol filled up with zero bits
Base32Encode(bs) ==
    Only({ [k \in 1..((8 * Len(b) + 4) \div 5) |->
               LET o == 5 * (k - 1)
                   w == At0(b, o \div 8 + 1) * 256 + At0(b, o \div 8 + 2)
               IN  Symbol((w \div Pow2(11 - (o % 8))) % 32)]
           : b \in {bs} })

\* BASE32_NOPAD.decode: rejects symbols outside the alphabet, lengths no
\* encoding has, and non-zero trailing bits
Base32Decode(cs) ==
    Only({ LET n == (5 * Len(v)) \div 8
               left == 5 * Len(v) - 8 * n
           IN  IF \E i \in 1..Len(v) : v[i] < 0
               THEN [ok |-> FALSE, val |-> <<>>]
               ELSE IF Len(v) % 8 \in {1, 3, 6}
               THEN [ok |-> FALSE, val |-> <<>>]
               ELSE IF left > 0 /\ v[Len(v)] % Pow2(left) # 0
               THEN [ok |-> FALSE, val |-> <<>>]
               ELSE [ok |-> TRUE,
                     val |-> [j \in 1..n |->
                         LET o == 8 * (j - 1)
                             w == (At0(v, o \div 5 + 1) * 32
                                      + At0(v, o \div 5 + 2)) * 32
                                  + At0(v, o \div 5 + 3)
                         IN  (w \div Pow2(7 - (o % 5))) % 256]]
           : v \in {[i \in 1..Len(cs) |-> SymbolValue(cs[i])]} })

\* str::to_ascii_uppercase
to_ascii_uppercase(cs) ==
    Only({ [i \in 1..Len(c) |-> IF c[i] \in 97..122 THEN c[i] - 32 ELSE c[i]]
           : c \in {cs} })

\* str::make_ascii_lowercase
make_ascii_lowercase(cs) ==
    Only({ [i \in 1..Len(c) |-> IF c[i] \in 65..90 THEN c[i] + 32 ELSE c[i]]
           : c \in {cs} })

\* variant: the text is written as the encoder gives it
fmt_keeps_case(t) == Base32Encode(to_bytes(t))

\* Display for Ticket: encode, make_ascii_lowercase, write
fmt(t) == make_ascii_lowercase(Base32Encode(to_bytes(t)))

\* variant: the text is decoded as typed
from_str_as_typed(cs) ==
    Only({ IF ~b.ok THEN Err ELSE from_bytes(b.val)
           : b \in {Base32Decode(cs)} })

\* FromStr for Ticket: decode the upper-cased text, then from_bytes
from_str(cs) ==
    Only({ IF ~b.ok THEN Err ELSE from_bytes(b.val)
           : b \in {Base32Decode(to_ascii_uppercase(cs))} })

(***************************************************************************)
(* The gossip transport as the relay sees it: what one                     *)
(* receiver.try_next().await can return.                                   *)
(***************************************************************************)
\* payloads that bincode rejects: empty, bad Option tag, key cut short,
\* string shorter than its length prefix, bytes that are not UTF-8
CorruptContents ==
    { <<>>, <<2, 1, 104>>, <<1>>, <<0, 5, 104>>, <<0, 1, 200>> }

\* a message followed by a byte the decoder never reads
TrailingContents == { EncodeMessageBody(m) \o <<9>> : m \in Msgs }

Contents ==
    { EncodeMessageBody(m) : m \in Msgs }
        \cup TrailingContents
        \cup CorruptContents

NoContent == <<>>

\* Ok(Some(Event::Received(message))), Ok(Some(any other event)),
\* Err(_), Ok(None)
Events ==
    [kind : {"Received"}, content : Contents]
        \cup [kind : {"NeighborUp", "Err", "End"}, content : {NoContent}]

(***************************************************************************)
(* State.                                                                  *)
(***************************************************************************)
Handles == {"h1", "h2"}

\* the two definitions of Handler<GotMessage> for P2PActor
Targets == {"p2p.rs", "main.rs"}

NoBody == [from |-> None, text |-> <<>>]

Request(t, h, b) == [type |-> t, h |-> h, body |-> b]

VARIABLES
    target,       \* which source file's P2PActor runs
    subscribers,  \* P2PActor.subscribers : Vec<Recipient<GotMessage>>
    sender,       \* P2PActor.sender : "None" or "Some"
    mailbox,      \* the relay actor's mailbox, FIFO
    relay,        \* "running", or "panicked" once a handler has panicked
    panicMsg,     \* the message of that panic
    closed,       \* subscribers whose mailbox is closed
    sends,        \* the Recipient::do_send calls that queued a message
    deliveries,   \* GotMessage requests handled so far
    pending,      \* spawned broadcast tasks that have not finished
    sent,         \* payloads the transport has accepted for broadcast
    listener,     \* position of start_listener
    loop,         \* position of subscribe_loop
    streamClosed, \* the receive-stream has reported its end
    arrived       \* history: the Received events, decoded or not, in order

VARIABLES
    ticket,       \* the ticket given to Display
    text,         \* the ticket text handed around
    origin,       \* how that text was made
    parsed        \* what from_str returned for it

relayVars ==
    <<target, subscribers, sender, mailbox, relay, panicMsg, closed, sends,
      deliveries, pending, sent, listener, loop, streamClosed, arrived>>

ticketVars == <<ticket, text, origin, parsed>>

\* the two peers of a session: A opens the room, B joins it
Peers == {"A", "B"}

VARIABLES
    args,         \* Args::parse(): the command line of each peer
    pc,           \* where each peer's main is
    exit,         \* how each peer's process ended, "running" before
    session,      \* (topic, nodes) of main, set by the ticket match
    router,       \* the peer's Router: "none", "running", "shutdown"
    p2p,          \* the peer's P2PActor and its mailbox
    tasks,        \* tokio::spawn: the receive loop, the broadcasts
    receiver,     \* GossipReceiver: the events not yet polled
    printer,      \* what the peer's LengthPrintActor was sent
    lines,        \* the console lines main has read
    history,      \* the History Store of the design
    linked        \* the gossip transport has connected A and B

mainVars ==
    <<args, pc, exit, session, router, p2p, tasks, receiver, printer,
      lines, history, linked>>

VARIABLES
    snapshot,     \* the history the Bootstrap Responder serves
    wire,         \* bytes of the response the client has not read yet
    buffer,       \* bytes the Bootstrap Client has accumulated
    reads,        \* reads the client has done
    download      \* the state and the result of download()

bootVars == <<snapshot, wire, buffer, reads, download>>

vars == <<relayVars, ticketVars, mainVars, bootVars>>

\* requests of type t waiting in the relay's mailbox
Requests(t) == Len(SelectSeq(mailbox, LAMBDA r : r.type = t))

\* what the callers and the transport have handed to the relay and is
\* still in its state
Load ==
    Len(subscribers) + Requests("Subscribe")
        + Len(pending) + Len(sent) + Requests("SendMessage")
        + Len(arrived)

\* the mailbox of subscriber h: what do_send queued for it, in order
Mailbox(h) == SelectSeq(sends, LAMBDA e : e.to = h)

\* the messages subscribe_loop decoded, in the order they arrived
Decoded == SelectSeq(arrived, LAMBDA a : a.ok)

(***************************************************************************)
(* Addr::do_send: queues the request unconditionally; a closed mailbox     *)
(* (the actor is gone) drops it silently.                                  *)
(***************************************************************************)
DoSend(q, r) == IF relay = "running" THEN Append(q, r) ELSE q

(***************************************************************************)
(* P2PActor::new() and the state before anything ran.                      *)
(***************************************************************************)
NoResult == [status |-> "none", val |-> NoTicket]

TicketIdle ==
    /\ ticket = NoTicket
    /\ text = <<>>
    /\ origin = "none"
    /\ parsed = NoResult

New ==
    /\ subscribers = <<>>
    /\ sender = "None"

\* endpoint.node_addr() of each peer
NodeAddrOf ==
    [p \in Peers |->
        IF p = "A"
        THEN [node_id |-> [i \in 1..NodeIdLen |-> 7], relay_url |-> None,
              direct_addresses |-> SocketAddrs]
        ELSE [node_id |-> [i \in 1..NodeIdLen |-> 9], relay_url |-> SomeUrl,
              direct_addresses |-> {[ip |-> <<10, 0, 0, 1>>, port |-> 80]}]]

\* endpoint.node_id()
NodeIdOf == [p \in Peers |-> NodeAddrOf[p].node_id]

\* the ticket main prints: Ticket { topic, nodes: vec![me] }
TicketOf(p, topic) == [topic |-> topic, nodes |-> <<NodeAddrOf[p]>>]

\* "1!": text outside the base-32 alphabet
NotBase32 == <<49, 33>>

\* what a user may pass as the ticket of `join`: the text A printed, that
\* text with its last character lost, and text that is no ticket
TicketArgs(topic) ==
    { fmt(TicketOf("A", topic)),
      Take(fmt(TicketOf("A", topic)), Len(fmt(TicketOf("A", topic))) - 1),
      NotBase32 }

\* Args: A runs `open` (random is what rand::random() returns for the
\* topic), B runs `join <ticket>`
Open(topic) == [command |-> "Open", ticket |-> <<>>, random |-> topic]

Join(tkt) == [command |-> "Join", ticket |-> tkt, random |-> <<>>]

NoSession == [topic |-> <<>>, nodes |-> <<>>]

\* P2PActor::new() with an empty mailbox, before .start()
NewActor ==
    [state |-> "none", subscribers |-> <<>>, sender |-> "None",
     mailbox |-> <<>>, panicMsg |-> ""]

NoTasks == [loop |-> FALSE, broadcasts |-> <<>>]

\* both processes are about to enter main
Started ==
    /\ pc = [p \in Peers |-> "parse"]
    /\ exit = [p \in Peers |-> "running"]
    /\ session = [p \in Peers |-> NoSession]
    /\ router = [p \in Peers |-> "none"]
    /\ p2p = [p \in Peers |-> NewActor]
    /\ tasks = [p \in Peers |-> NoTasks]
    /\ receiver = [p \in Peers |-> <<>>]
    /\ printer = [p \in Peers |-> <<>>]
    /\ lines = [p \in Peers |-> <<>>]
    /\ history = [p \in Peers |-> <<>>]
    /\ linked = FALSE

\* no bootstrap connection has been made
NoDownload ==
    /\ snapshot = <<>>
    /\ wire = 0
    /\ buffer = 0
    /\ reads = 0
    /\ download = [status |-> "idle", history |-> <<>>]

\* no peer process is looked at
NoPeers ==
    /\ args = [p \in Peers |-> Open(<<>>)]
    /\ Started
    /\ NoDownload

\* nothing has been sent, received or spawned yet
Idle ==
    /\ mailbox = <<>>
    /\ relay = "running"
    /\ panicMsg = ""
    /\ closed = {}
    /\ sends = <<>>
    /\ deliveries = 0
    /\ pending = <<>>
    /\ sent = <<>>
    /\ listener = "start"
    /\ loop = "unspawned"
    /\ streamClosed = FALSE
    /\ arrived = <<>>

Init ==
    /\ target \in Targets
    /\ New
    /\ Idle
    /\ TicketIdle
    /\ NoPeers

(***************************************************************************)
(* Callers of the relay.                                                   *)
(***************************************************************************)
\* p2p.do_send(Subscribe(recipient))
ClientSubscribe(h) ==
    /\ Load < MaxRequests
    /\ mailbox' = DoSend(mailbox, Request("Subscribe", h, NoBody))
    /\ UNCHANGED <<target, subscribers, sender, relay, panicMsg, closed,
                   sends, deliveries, pending, sent, listener, loop,
                   streamClosed, arrived, ticketVars, mainVars, bootVars>>

\* p2p.do_send(SendMessage(message))
ClientSend(m) ==
    /\ Load < MaxRequests
    /\ mailbox' = DoSend(mailbox, Request("SendMessage", "-", m))
    /\ UNCHANGED <<target, subscribers, sender, relay, panicMsg, closed,
                   sends, deliveries, pending, sent, listener, loop,
                   streamClosed, arrived, ticketVars, mainVars, bootVars>>

\* a subscriber actor stops: its mailbox is closed from then on (a stop
\* shows only through a recipient the relay holds, so it is taken from
\* the registration on)
SubscriberStop(h) ==
    /\ h \notin closed
    /\ Count(subscribers, h) > 0
    /\ closed' = closed \cup {h}
    /\ UNCHANGED <<target, subscribers, sender, mailbox, relay, panicMsg,
                   sends, deliveries, pending, sent, listener, loop,
                   streamClosed, arrived, ticketVars, mainVars, bootVars>>

(***************************************************************************)
(* P2PActor::start_listener.                                               *)
(***************************************************************************)
\* subscribe_and_join(..).await.expect(..), do_send(SetSender), spawn loop
StartListener(joined) ==
    /\ listener = "start"
    /\ IF joined
       THEN /\ mailbox' = DoSend(mailbox, Request("SetSender", "-", NoBody))
            /\ listener' = "returned"
            /\ loop' = "running"
       ELSE /\ listener' = "panicked"
            /\ UNCHANGED <<mailbox, loop>>
    /\ UNCHANGED <<target, subscribers, sender, relay, panicMsg, closed,
                   sends, deliveries, pending, sent, streamClosed, arrived,
                   ticketVars, mainVars, bootVars>>

(***************************************************************************)
(* P2PActor::subscribe_loop: one iteration of the loop.  Every path of the *)
(* body ends in `continue` or falls through to the next iteration; there   *)
(* is no break and no return.                                              *)
(***************************************************************************)
\* variant: a payload that does not decode ends the loop
SubscribeLoopBreaks(ev) ==
    /\ loop = "running"
    /\ streamClosed => ev.kind = "End"
    /\ streamClosed' = (streamClosed \/ ev.kind = "End")
    /\ IF ev.kind = "Received"
       THEN /\ Load < MaxRequests
            /\ LET r == DecodeMessageBody(ev.content)
               IN  IF r.ok
                   THEN /\ mailbox' = DoSend(mailbox,
                               Request("GotMessage", "-", r.val))
                        /\ arrived' = Append(arrived,
                               [ok |-> TRUE, msg |-> r.val])
                        /\ loop' = "running"
                   ELSE /\ arrived' = Append(arrived,
                               [ok |-> FALSE, msg |-> NoBody])
                        /\ loop' = "returned"
                        /\ UNCHANGED mailbox
       ELSE /\ loop' = "running"
            /\ UNCHANGED <<mailbox, arrived>>
    /\ UNCHANGED <<target, subscribers, sender, relay, panicMsg, closed,
                   sends, deliveries, pending, sent, listener,
                   ticketVars, mainVars, bootVars>>

SubscribeLoop(ev) ==
    /\ loop = "running"
    /\ streamClosed => ev.kind = "End"
    /\ streamClosed' = (streamClosed \/ ev.kind = "End")
    /\ loop' = "running"
    /\ IF ev.kind = "Received"
       THEN /\ Load < MaxRequests
            /\ LET r == DecodeMessageBody(ev.content)
               IN  IF r.ok
                   THEN /\ mailbox' = DoSend(mailbox,
                               Request("GotMessage", "-", r.val))
                        /\ arrived' = Append(arrived,
                               [ok |-> TRUE, msg |-> r.val])
                   ELSE /\ arrived' = Append(arrived,
                               [ok |-> FALSE, msg |-> NoBody])
                        /\ UNCHANGED mailbox
       ELSE UNCHANGED <<mailbox, arrived>>
    /\ UNCHANGED <<target, subscribers, sender, relay, panicMsg, closed,
                   sends, deliveries, pending, sent, listener,
                   ticketVars, mainVars, bootVars>>

(***************************************************************************)
(* The handlers of P2PActor.  The actor handles one request at a time, in  *)
(* the order of its mailbox.                                               *)
(***************************************************************************)
Handling(t) ==
    /\ relay = "running"
    /\ mailbox # <<>>
    /\ Head(mailbox).type = t

\* Handler<Subscribe>: self.subscribers.push(msg.0)
HandleSubscribe ==
    /\ Handling("Subscribe")
    /\ subscribers' = Append(subscribers, Head(mailbox).h)
    /\ mailbox' = Tail(mailbox)
    /\ UNCHANGED <<target, sender, relay, panicMsg, closed, sends,
                   deliveries, pending, sent, listener, loop, streamClosed,
                   arrived, ticketVars, mainVars, bootVars>>

\* Handler<SetSender>: self.sender = Some(msg.0)
HandleSetSender ==
    /\ Handling("SetSender")
    /\ sender' = "Some"
    /\ mailbox' = Tail(mailbox)
    /\ UNCHANGED <<target, subscribers, relay, panicMsg, closed, sends,
                   deliveries, pending, sent, listener, loop, streamClosed,
                   arrived, ticketVars, mainVars, bootVars>>

\* index of the first subscriber whose mailbox is closed, 0 if none is
FirstClosed(subs, cl) ==
    IF \E i \in 1..Len(subs) : subs[i] \in cl
    THEN CHOOSE i \in 1..Len(subs) :
             /\ subs[i] \in cl
             /\ \A j \in 1..(i - 1) : subs[j] \notin cl
    ELSE 0

\* p2p.rs: .for_each(|s| s.do_send(msg.clone())) -- do_send returns (),
\* a closed mailbox drops the message and the iteration goes on
ServedP2p(subs, cl) == SelectSeq(subs, LAMBDA h : h \notin cl)

\* main.rs: .for_each(|s| s.do_send(msg.clone()).unwrap()) -- do_send
\* returns Err(SendError::Closed) for a closed mailbox and unwrap panics
ServedMain(subs, cl) ==
    IF FirstClosed(subs, cl) = 0 THEN subs
    ELSE Take(subs, FirstClosed(subs, cl) - 1)

PanicsMain(subs, cl) == FirstClosed(subs, cl) # 0

RECURSIVE Reverse(_)
Reverse(q) == IF q = <<>> THEN <<>> ELSE Append(Reverse(Tail(q)), Head(q))

\* variant: the subscribers are served last to first
ServedBackwards(tgt, subs, cl) ==
    IF tgt = "p2p.rs" THEN ServedP2p(Reverse(subs), cl)
    ELSE ServedMain(Reverse(subs), cl)

\* the recipients one GotMessage is queued for, in the order of the calls
Served(tgt, subs, cl) ==
    IF tgt = "p2p.rs" THEN ServedP2p(subs, cl) ELSE ServedMain(subs, cl)

\* variant: the handler drops the subscribers it could not reach
HandleGotMessagePrunes ==
    /\ Handling("GotMessage")
    /\ LET m == Head(mailbox).body
           served == Served(target, subscribers, closed)
       IN  sends' = sends \o
               [i \in 1..Len(served) |->
                   [to |-> served[i], msg |-> m, d |-> deliveries + 1]]
    /\ deliveries' = deliveries + 1
    /\ subscribers' = SelectSeq(subscribers, LAMBDA h : h \notin closed)
    /\ IF target = "main.rs" /\ PanicsMain(subscribers, closed)
       THEN /\ relay' = "panicked"
            /\ panicMsg' = "unwrap on SendError::Closed"
       ELSE UNCHANGED <<relay, panicMsg>>
    /\ mailbox' = Tail(mailbox)
    /\ UNCHANGED <<target, sender, closed, pending, sent, listener, loop,
                   streamClosed, arrived, ticketVars, mainVars, bootVars>>

\* Handler<GotMessage>: self.subscribers.iter().for_each(..)
HandleGotMessage ==
    /\ Handling("GotMessage")
    /\ LET m == Head(mailbox).body
           served == Served(target, subscribers, closed)
       IN  sends' = sends \o
               [i \in 1..Len(served) |->
                   [to |-> served[i], msg |-> m, d |-> deliveries + 1]]
    /\ deliveries' = deliveries + 1
    /\ IF target = "main.rs" /\ PanicsMain(subscribers, closed)
       THEN /\ relay' = "panicked"
            /\ panicMsg' = "unwrap on SendError::Closed"
       ELSE UNCHANGED <<relay, panicMsg>>
    /\ mailbox' = Tail(mailbox)
    /\ UNCHANGED <<target, subscribers, sender, closed, pending, sent,
                   listener, loop, streamClosed, arrived,
                   ticketVars, mainVars, bootVars>>

\* variant: a publish without a sender is skipped
HandleSendMessageSkips ==
    /\ Handling("SendMessage")
    /\ IF sender = "None"
       THEN UNCHANGED <<relay, panicMsg, pending>>
       ELSE /\ pending' = Append(pending,
                  EncodeMessageBody(Head(mailbox).body))
            /\ UNCHANGED <<relay, panicMsg>>
    /\ mailbox' = Tail(mailbox)
    /\ UNCHANGED <<target, subscribers, sender, closed, sends, deliveries,
                   sent, listener, loop, streamClosed, arrived,
                   ticketVars, mainVars, bootVars>>

\* variant: the handler awaits the broadcast itself
HandleSendMessageAwaits ==
    /\ Handling("SendMessage")
    /\ IF sender = "None"
       THEN /\ relay' = "panicked"
            /\ panicMsg' = "no P2P sender"
            /\ UNCHANGED <<pending, sent>>
       ELSE /\ sent' = Append(sent, EncodeMessageBody(Head(mailbox).body))
            /\ UNCHANGED <<relay, panicMsg, pending>>
    /\ mailbox' = Tail(mailbox)
    /\ UNCHANGED <<target, subscribers, sender, closed, sends, deliveries,
                   listener, loop, streamClosed, arrived,
                   ticketVars, mainVars, bootVars>>

\* Handler<SendMessage>: expect the sender, encode, spawn the broadcast
HandleSendMessage ==
    /\ Handling("SendMessage")
    /\ IF sender = "None"
       THEN /\ relay' = "panicked"
            /\ panicMsg' = "no P2P sender"
            /\ UNCHANGED pending
       ELSE /\ pending' = Append(pending,
                  EncodeMessageBody(Head(mailbox).body))
            /\ UNCHANGED <<relay, panicMsg>>
    /\ mailbox' = Tail(mailbox)
    /\ UNCHANGED <<target, subscribers, sender, closed, sends, deliveries,
                   sent, listener, loop, streamClosed, arrived,
                   ticketVars, mainVars, bootVars>>

\* the spawned task: sender.broadcast(bytes.into()).await.unwrap();
\* a failed broadcast panics inside the task only
Broadcast(i, ok) ==
    /\ i \in 1..Len(pending)
    /\ pending' = Take(pending, i - 1) \o Drop(pending, i)
    /\ sent' = IF ok THEN Append(sent, pending[i]) ELSE sent
    /\ UNCHANGED <<target, subscribers, sender, mailbox, relay, panicMsg,
                   closed, sends, deliveries, listener, loop, streamClosed,
                   arrived, ticketVars, mainVars, bootVars>>

(***************************************************************************)
(* The relay and its environment.                                          *)
(***************************************************************************)
Next ==
    \/ \E h \in Handles : ClientSubscribe(h)
    \/ \E m \in Msgs : ClientSend(m)
    \/ \E h \in Handles : SubscriberStop(h)
    \/ \E joined \in BOOLEAN : StartListener(joined)
    \/ \E ev \in Events : SubscribeLoop(ev)
    \/ HandleSubscribe
    \/ HandleSetSender
    \/ HandleGotMessage
    \/ HandleSendMessage
    \/ \E i \in 1..Len(pending), ok \in BOOLEAN : Broadcast(i, ok)

Spec == Init /\ [][Next]_vars

(***************************************************************************)
(* Properties of the relay.                                                *)
(***************************************************************************)
\* a step in which the relay handles a GotMessage request
Delivers ==
    /\ Handling("GotMessage")
    /\ mailbox' = Tail(mailbox)

\* the do_send calls of one step that queued a message, in call order
NewSends == SubSeq(sends', Len(sends) + 1, Len(sends'))

\* copies that one step queued for subscriber h
Copies(h) == Len(SelectSeq(NewSends, LAMBDA e : e.to = h))

\* the recipients of one step's copies, in the order they were served
Recipients == [i \in 1..Len(NewSends) |-> NewSends[i].to]

\* one step of the relay actor
RelayStep ==
    HandleSubscribe \/ HandleSetSender \/ HandleGotMessage \/ HandleSendMessage

\* C1: deliver(m) queues m, and nothing else, once per registration for
\* each subscriber registered before it (and able to receive at all: its
\* mailbox is open) and never for a subscriber not registered before it;
\* no other step queues anything for a subscriber
C1_FanOutComplete ==
    [][IF Delivers
       THEN /\ IsPrefix(sends, sends')
            /\ \A i \in 1..Len(NewSends) :
                   NewSends[i].msg = Head(mailbox).body
            /\ \A h \in Handles :
                   /\ h \notin closed => Copies(h) = Count(subscribers, h)
                   /\ Count(subscribers, h) = 0 => Copies(h) = 0
       ELSE sends' = sends]_vars

\* what the decoder returns for each payload the transport may hand over
Decodings == [c \in Contents |-> DecodeMessageBody(c)]

\* the valid MessageBody encodings
Encodings == { EncodeMessageBody(m) : m \in MessageBody }

C3_PublishWithoutSender ==
    /\ [][(Handling("SendMessage") /\ sender = "None"
              /\ mailbox' = Tail(mailbox)) =>
            /\ relay' = "panicked"
            /\ panicMsg' = "no P2P sender"
            /\ pending' = pending
            /\ sent' = sent]_vars
    /\ [](sender = "None" => pending = <<>> /\ sent = <<>>)

\* C3 witness: the relay has panicked on a publish before SetSender
C3_Witness ==
    /\ relay = "panicked"
    /\ panicMsg = "no P2P sender"
    /\ sender = "None"

\* C4: handling SendMessage with a sender spawns exactly one broadcast
\* whose payload decodes to the message, completes without the broadcast
\* having been accepted, and leaves the relay able to handle its next
\* request while broadcasts are pending
C4_PublishAsync ==
    /\ [][(Handling("SendMessage") /\ sender = "Some"
              /\ mailbox' = Tail(mailbox)) =>
            /\ Len(pending') = Len(pending) + 1
            /\ Take(pending', Len(pending)) = pending
            /\ DecodeMessageBody(pending'[Len(pending')])
                   = Ok(Head(mailbox).body, <<>>)
            /\ sent' = sent
            /\ relay' = "running"]_vars
    /\ []((pending # <<>> /\ relay = "running" /\ mailbox # <<>>)
              => ENABLED RelayStep)

\* C4 witness: a second publish was handled while the first broadcast was
\* still pending
C4_Witness ==
    /\ Len(pending) >= 2
    /\ relay = "running"

\* C5: the receive loop returns when the receive-stream reports its end,
\* and in no other case
C5_LoopEndsOnClose ==
    /\ [][(~streamClosed /\ streamClosed') => loop' = "returned"]_vars
    /\ [][(loop = "running" /\ loop' # "running") => streamClosed']_vars

\* C6: deliveries happen in the order the messages arrived; each delivery
\* serves the subscribers in registration order; deliveries do not
\* interleave; so no subscriber gets a later message before an earlier one
C6_DeliveryOrder ==
    /\ [][Delivers =>
            /\ deliveries < Len(Decoded)
            /\ Head(mailbox).body = Decoded[deliveries + 1].msg
            /\ IsPrefix(Recipients,
                        SelectSeq(subscribers,
                                  LAMBDA h : h \notin closed))]_vars
    /\ [](/\ \A i, j \in 1..Len(sends) : i < j => sends[i].d <= sends[j].d
          /\ \A h \in Handles : \A i, j \in 1..Len(Mailbox(h)) :
                 i < j => Mailbox(h)[i].d <= Mailbox(h)[j].d)

\* C6 witness: two subscribers were served by one delivery, and one of them
\* has got the first and the second message
C6_Witness ==
    /\ \E i \in 1..(Len(sends) - 1) :
           sends[i].d = sends[i + 1].d /\ sends[i].to # sends[i + 1].to
    /\ \E h \in Handles :
           /\ Len(Mailbox(h)) >= 2
           /\ Mailbox(h)[1].d = 1
           /\ Mailbox(h)[Len(Mailbox(h))].d = 2

\* C7: a subscriber whose mailbox is closed neither keeps a delivery from
\* the other registered subscribers nor crashes the relay
C7_DeliverNonBlocking ==
    /\ [](relay = "panicked" => panicMsg = "no P2P sender")
    /\ [][Delivers =>
            /\ relay' = "running"
            /\ \A h \in Handles \ closed :
                   Count(subscribers, h) > 0 => Copies(h) > 0]_vars

(***************************************************************************)
(* The ticket text: written by Display, passed on by hand, read by         *)
(* FromStr.                                                                *)
(***************************************************************************)
\* extra bytes put after a complete ticket encoding
Extras == { <<0>>, <<1, 2>> }

\* "!", "1", "ab", "aa", "", "b=", "89"
Garbage ==
    { <<33>>, <<49>>, <<97, 98>>, <<97, 97>>, <<>>, <<98, 61>>, <<56, 57>> }

\* every other letter in upper case
Alternating(cs) ==
    [i \in 1..Len(cs) |->
        IF i % 2 = 1 THEN to_ascii_uppercase(cs)[i]
        ELSE make_ascii_lowercase(cs)[i]]

TicketInit ==
    /\ target \in Targets
    /\ New
    /\ Idle
    /\ ticket \in Tickets
    /\ text = <<>>
    /\ origin = "none"
    /\ parsed = NoResult
    /\ NoPeers

\* println!("> ticket: {ticket}")
Display ==
    /\ origin = "none"
    /\ text' = fmt(ticket)
    /\ origin' = "display"
    /\ UNCHANGED <<relayVars, mainVars, bootVars, ticket, parsed>>

\* the text is passed on in another case
Retype(how) ==
    /\ origin = "display"
    /\ text' = CASE how = "upper" -> to_ascii_uppercase(text)
                 [] how = "lower" -> make_ascii_lowercase(text)
                 [] OTHER -> Alternating(text)
    /\ origin' = how
    /\ parsed' = NoResult
    /\ UNCHANGED <<relayVars, mainVars, bootVars, ticket>>

\* the text is cut short
Truncate(n) ==
    /\ origin = "display"
    /\ n < Len(text)
    /\ text' = Take(text, n)
    /\ origin' = "truncated"
    /\ parsed' = NoResult
    /\ UNCHANGED <<relayVars, mainVars, bootVars, ticket>>

\* a text made from the first k bytes of the encoding only
Shorten(k) ==
    /\ origin = "display"
    /\ k < Len(to_bytes(ticket))
    /\ text' = make_ascii_lowercase(Base32Encode(Take(to_bytes(ticket), k)))
    /\ origin' = "short"
    /\ parsed' = NoResult
    /\ UNCHANGED <<relayVars, mainVars, bootVars, ticket>>

\* a text made from the encoding followed by extra bytes
Extend(extra) ==
    /\ origin = "display"
    /\ text' = make_ascii_lowercase(Base32Encode(to_bytes(ticket) \o extra))
    /\ origin' = "extended"
    /\ parsed' = NoResult
    /\ UNCHANGED <<relayVars, mainVars, bootVars, ticket>>

\* a text that is no ticket at all
Scribble(g) ==
    /\ origin = "display"
    /\ text' = g
    /\ origin' = "garbage"
    /\ parsed' = NoResult
    /\ UNCHANGED <<relayVars, mainVars, bootVars, ticket>>

\* Ticket::from_str(ticket)
FromStr ==
    /\ origin # "none"
    /\ parsed = NoResult
    /\ parsed' = from_str(text)
    /\ UNCHANGED <<relayVars, mainVars, bootVars, ticket, text, origin>>

TicketNext ==
    \/ Display
    \/ \E how \in {"upper", "lower", "mixed"} : Retype(how)
    \/ \E n \in 0..Len(text) : Truncate(n)
    \/ \E k \in 0..Len(to_bytes(ticket)) : Shorten(k)
    \/ \E extra \in Extras : Extend(extra)
    \/ \E g \in Garbage : Scribble(g)
    \/ FromStr

TicketSpec == TicketInit /\ [][TicketNext]_vars

(***************************************************************************)
(* Properties of the ticket text.                                          *)
(***************************************************************************)
Parsed == parsed.status # "none"

\* C8: parsing the text that Display wrote for a ticket succeeds and gives
\* back that ticket: same topic, same nodes in the same order
C8_RoundTrip ==
    (origin = "display" /\ Parsed) =>
        /\ parsed.status = "ok"
        /\ parsed.val.topic = ticket.topic
        /\ parsed.val.nodes = ticket.nodes

\* C8 witness: the text of a ticket with as many nodes as the inputs have
\* has been parsed
C8_Witness ==
    /\ origin = "display"
    /\ Parsed
    /\ Len(ticket.nodes) >= 2
    /\ \E i \in 1..Len(ticket.nodes) :
           Cardinality(ticket.nodes[i].direct_addresses) = 2

\* C9: from_str fails for text outside the alphabet, for a ticket text cut
\* short, and for text whose bytes hold too few or too many fields, a
\* complete encoding followed by extra bytes included
C9_MalformedRejected ==
    (origin \in {"garbage", "truncated", "short", "extended"} /\ Parsed) =>
        parsed.status = "err"

\* C10: whenever a text parses, its upper-case and its lower-case form
\* parse to the same ticket; a ticket text typed in any case parses to the
\* ticket it was written for; Display writes no upper-case letter
C10_CaseInsensitive ==
    /\ (Parsed /\ parsed.status = "ok") =>
           /\ from_str(to_ascii_uppercase(text)) = parsed
           /\ from_str(make_ascii_lowercase(text)) = parsed
    /\ (origin \in {"upper", "lower", "mixed"} /\ Parsed) =>
           parsed = [status |-> "ok", val |-> ticket]
    /\ origin = "display" => \A i \in 1..Len(text) : text[i] \notin 65..90

\* C10 witness: a text with letters of both cases has been parsed
C10_Witness ==
    /\ origin = "mixed"
    /\ Parsed
    /\ \E i \in 1..Len(text) : text[i] \in 65..90
    /\ \E i \in 1..Len(text) : text[i] \in 97..122

(***************************************************************************)
(* The program: main of each peer (src/src/main.rs), its P2PActor, the     *)
(* tasks it spawns and the gossip transport between the two peers.  The    *)
(* runtime of #[actix_rt::main] is single-threaded: what main does between *)
(* two awaits is one step.                                                 *)
(***************************************************************************)
Alive(p) == exit[p] = "running"

\* the peer has called subscribe_and_join and still runs
Subscribed(p) ==
    /\ Alive(p)
    /\ pc[p] \in {"join", "stdin", "ctrl_c", "shutdown"}

\* Addr<P2PActor>::do_send on the actor record a
Post(a, r) ==
    IF a.state = "running"
    THEN [a EXCEPT !.mailbox = Append(@, r)]
    ELSE a

NeighborUp == [kind |-> "NeighborUp", content |-> NoContent]

Received(content) == [kind |-> "Received", content |-> content]

\* variant: a ticket that does not parse is replaced by the default one
MainParseDefaults(p) ==
    /\ Alive(p)
    /\ pc[p] = "parse"
    /\ IF args[p].command = "Open"
       THEN session' = [session EXCEPT
                ![p] = [topic |-> args[p].random, nodes |-> <<>>]]
       ELSE \E r \in {from_str(args[p].ticket)} :
                session' = [session EXCEPT ![p] = r.val]
    /\ pc' = [pc EXCEPT ![p] = "bind"]
    /\ UNCHANGED <<args, exit, router, p2p, tasks, receiver, printer, lines,
                   history, linked, relayVars, ticketVars, bootVars>>

\* main, the ticket match: Open draws a topic, Join parses the ticket and
\* returns the error with `?`
MainParse(p) ==
    /\ Alive(p)
    /\ pc[p] = "parse"
    /\ IF args[p].command = "Open"
       THEN /\ session' = [session EXCEPT
                   ![p] = [topic |-> args[p].random, nodes |-> <<>>]]
            /\ pc' = [pc EXCEPT ![p] = "bind"]
            /\ UNCHANGED exit
       ELSE \E r \in {from_str(args[p].ticket)} :
                IF r.status = "ok"
                THEN /\ session' = [session EXCEPT ![p] = r.val]
                     /\ pc' = [pc EXCEPT ![p] = "bind"]
                     /\ UNCHANGED exit
                ELSE /\ exit' = [exit EXCEPT ![p] = "1"]
                     /\ pc' = [pc EXCEPT ![p] = "exited"]
                     /\ UNCHANGED session
    /\ UNCHANGED <<args, router, p2p, tasks, receiver, printer, lines,
                   history, linked, relayVars, ticketVars, bootVars>>

\* main: Endpoint bind (unwrap), Gossip, Router, the ticket is printed,
\* P2PActor::new().start(), start_listener up to subscribe_and_join
MainBind(p, ok) ==
    /\ Alive(p)
    /\ pc[p] = "bind"
    /\ IF ok
       THEN /\ router' = [router EXCEPT ![p] = "running"]
            /\ p2p' = [p2p EXCEPT ![p].state = "running"]
            /\ pc' = [pc EXCEPT ![p] = "join"]
            /\ UNCHANGED exit
       ELSE /\ exit' = [exit EXCEPT ![p] = "panic"]
            /\ pc' = [pc EXCEPT ![p] = "exited"]
            /\ UNCHANGED <<router, p2p>>
    /\ UNCHANGED <<args, session, tasks, receiver, printer, lines, history,
                   linked, relayVars, ticketVars, bootVars>>

\* the transport connects the two peers once both have subscribed to the
\* same topic and the joiner names the opener
Connect ==
    /\ ~linked
    /\ \A p \in Peers : Subscribed(p)
    /\ session["A"].topic = session["B"].topic
    /\ \E i \in 1..Len(session["B"].nodes) :
           session["B"].nodes[i].node_id = NodeIdOf["A"]
    /\ linked' = TRUE
    /\ receiver' = [p \in Peers |-> Append(receiver[p], NeighborUp)]
    /\ UNCHANGED <<args, pc, exit, session, router, p2p, tasks, printer,
                   lines, history, relayVars, ticketVars, bootVars>>

\* variant: start_listener forgets addr.do_send(SetSender(sender))
MainListenNoSender(p, joined) ==
    /\ Alive(p)
    /\ pc[p] = "join"
    /\ joined => linked
    /\ IF joined
       THEN /\ p2p' = [p2p EXCEPT
                   ![p] = Post(@, Request("Subscribe", "printer", NoBody))]
            /\ tasks' = [tasks EXCEPT ![p].loop = TRUE]
            /\ pc' = [pc EXCEPT ![p] = "stdin"]
            /\ UNCHANGED exit
       ELSE /\ exit' = [exit EXCEPT ![p] = "panic"]
            /\ pc' = [pc EXCEPT ![p] = "exited"]
            /\ UNCHANGED <<p2p, tasks>>
    /\ UNCHANGED <<args, session, router, receiver, printer, lines, history,
                   linked, relayVars, ticketVars, bootVars>>

\* main: subscribe_and_join returns (expect), do_send(SetSender), the
\* receive loop is spawned, start_listener returns, the printer is
\* started and subscribed; main then sleeps and waits for a line
MainListen(p, joined) ==
    /\ Alive(p)
    /\ pc[p] = "join"
    /\ joined => linked
    /\ IF joined
       THEN /\ p2p' = [p2p EXCEPT
                   ![p] = Post(Post(@, Request("SetSender", "-", NoBody)),
                               Request("Subscribe", "printer", NoBody))]
            /\ tasks' = [tasks EXCEPT ![p].loop = TRUE]
            /\ pc' = [pc EXCEPT ![p] = "stdin"]
            /\ UNCHANGED exit
       ELSE /\ exit' = [exit EXCEPT ![p] = "panic"]
            /\ pc' = [pc EXCEPT ![p] = "exited"]
            /\ UNCHANGED <<p2p, tasks>>
    /\ UNCHANGED <<args, session, router, receiver, printer, lines, history,
                   linked, relayVars, ticketVars, bootVars>>

\* the console lines read so far, both peers together
Typed == Len(lines["A"]) + Len(lines["B"])

\* main, the stdin loop: a line was read, SendMessage is sent to the relay
MainLine(p, line) ==
    /\ Alive(p)
    /\ pc[p] = "stdin"
    /\ Typed < MaxLines
    /\ p2p' = [p2p EXCEPT
           ![p] = Post(@, Request("SendMessage", "-",
                          [from |-> Some(NodeIdOf[p]), text |-> line]))]
    /\ lines' = [lines EXCEPT ![p] = Append(@, line)]
    /\ UNCHANGED <<args, pc, exit, session, router, tasks, receiver,
                   printer, history, linked, relayVars, ticketVars, bootVars>>

\* main: next_line() returns Ok(None) or Err, the loop ends and main
\* awaits tokio::signal::ctrl_c()
MainEof(p) ==
    /\ Alive(p)
    /\ pc[p] = "stdin"
    /\ pc' = [pc EXCEPT ![p] = "ctrl_c"]
    /\ UNCHANGED <<args, exit, session, router, p2p, tasks, receiver,
                   printer, lines, history, linked, relayVars,
                   ticketVars, bootVars>>

\* the interrupt signal: main takes it where it awaits ctrl_c(); before
\* that no handler is installed and the signal ends the process
Interrupt(p) ==
    /\ Alive(p)
    /\ pc[p] # "shutdown"
    /\ IF pc[p] = "ctrl_c"
       THEN /\ pc' = [pc EXCEPT ![p] = "shutdown"]
            /\ UNCHANGED exit
       ELSE /\ exit' = [exit EXCEPT ![p] = "SIGINT"]
            /\ pc' = [pc EXCEPT ![p] = "exited"]
    /\ UNCHANGED <<args, session, router, p2p, tasks, receiver, printer,
                   lines, history, linked, relayVars, ticketVars, bootVars>>

\* main: router.shutdown().await.ok(); Ok(())
MainShutdown(p) ==
    /\ Alive(p)
    /\ pc[p] = "shutdown"
    /\ router' = [router EXCEPT ![p] = "shutdown"]
    /\ exit' = [exit EXCEPT ![p] = "0"]
    /\ pc' = [pc EXCEPT ![p] = "exited"]
    /\ UNCHANGED <<args, session, p2p, tasks, receiver, printer, lines,
                   history, linked, relayVars, ticketVars, bootVars>>

\* the head of the actor's mailbox, when the actor can handle it
CanHandle(p, t) ==
    /\ Alive(p)
    /\ p2p[p].state = "running"
    /\ p2p[p].mailbox # <<>>
    /\ Head(p2p[p].mailbox).type = t

\* the P2PActor of peer p handles the request at the head of its mailbox
\* (the four handlers of main.rs); the printer never stops
Handle(p) ==
    /\ \E t \in {"Subscribe", "SetSender", "GotMessage", "SendMessage"} :
           CanHandle(p, t)
    /\ LET a == p2p[p]
           r == Head(a.mailbox)
           rest == [a EXCEPT !.mailbox = Tail(@)]
       IN  CASE r.type = "Subscribe" ->
                  /\ p2p' = [p2p EXCEPT ![p] =
                         [rest EXCEPT !.subscribers = Append(@, r.h)]]
                  /\ UNCHANGED <<tasks, printer>>
             [] r.type = "SetSender" ->
                  /\ p2p' = [p2p EXCEPT ![p] = [rest EXCEPT !.sender = "Some"]]
                  /\ UNCHANGED <<tasks, printer>>
             [] r.type = "GotMessage" ->
                  /\ printer' = [printer EXCEPT ![p] = @ \o
                         [i \in 1..Len(Served("main.rs", a.subscribers, {}))
                             |-> r.body]]
                  /\ p2p' = [p2p EXCEPT ![p] =
                         IF PanicsMain(a.subscribers, {})
                         THEN [rest EXCEPT
                                 !.state = "panicked",
                                 !.panicMsg = "unwrap on SendError::Closed"]
                         ELSE rest]
                  /\ UNCHANGED tasks
             [] r.type = "SendMessage" ->
                  IF a.sender = "None"
                  THEN /\ p2p' = [p2p EXCEPT ![p] =
                              [rest EXCEPT !.state = "panicked",
                                           !.panicMsg = "no P2P sender"]]
                       /\ UNCHANGED <<tasks, printer>>
                  ELSE /\ tasks' = [tasks EXCEPT ![p].broadcasts =
                              Append(@, EncodeMessageBody(r.body))]
                       /\ p2p' = [p2p EXCEPT ![p] = rest]
                       /\ UNCHANGED printer
    /\ UNCHANGED <<args, pc, exit, session, router, receiver, lines,
                   history, linked, relayVars, ticketVars, bootVars>>

\* variant: an event that is no message ends the loop
ReceiveLoopStops(p) ==
    /\ Alive(p)
    /\ tasks[p].loop
    /\ receiver[p] # <<>>
    /\ receiver' = [receiver EXCEPT ![p] = Tail(@)]
    /\ IF Head(receiver[p]).kind = "Received"
       THEN /\ \E r \in {DecodeMessageBody(Head(receiver[p]).content)} :
                  p2p' = [p2p EXCEPT ![p] =
                      IF r.ok
                      THEN Post(@, Request("GotMessage", "-", r.val))
                      ELSE @]
            /\ UNCHANGED tasks
       ELSE /\ tasks' = [tasks EXCEPT ![p].loop = FALSE]
            /\ UNCHANGED p2p
    /\ UNCHANGED <<args, pc, exit, session, router, printer, lines, history,
                   linked, relayVars, ticketVars, bootVars>>

\* subscribe_loop of peer p takes the next event of its receiver
ReceiveLoop(p) ==
    /\ Alive(p)
    /\ tasks[p].loop
    /\ receiver[p] # <<>>
    /\ receiver' = [receiver EXCEPT ![p] = Tail(@)]
    /\ IF Head(receiver[p]).kind = "Received"
       THEN \E r \in {DecodeMessageBody(Head(receiver[p]).content)} :
                p2p' = [p2p EXCEPT ![p] =
                    IF r.ok
                    THEN Post(@, Request("GotMessage", "-", r.val))
                    ELSE @]
       ELSE UNCHANGED p2p
    /\ UNCHANGED <<args, pc, exit, session, router, tasks, printer, lines,
                   history, linked, relayVars, ticketVars, bootVars>>

\* a spawned broadcast finishes: the transport hands the payload to the
\* neighbours of p (never to p itself), or refuses it and the task panics
BroadcastTask(p, i, ok) ==
    /\ Alive(p)
    /\ i \in 1..Len(tasks[p].broadcasts)
    /\ tasks' = [tasks EXCEPT ![p].broadcasts = Take(@, i - 1) \o Drop(@, i)]
    /\ receiver' =
           [q \in Peers |->
               IF ok /\ linked /\ q # p /\ Subscribed(q)
               THEN Append(receiver[q], Received(tasks[p].broadcasts[i]))
               ELSE receiver[q]]
    /\ UNCHANGED <<args, pc, exit, session, router, p2p, printer, lines,
                   history, linked, relayVars, ticketVars, bootVars>>

\* "hello" and "h"
Hello == <<104, 101, 108, 108, 111>>

Lines == { Hello, <<104>> }

\* both peers start with the relay and ticket parts at rest
MainInit ==
    /\ target = "main.rs"
    /\ New
    /\ Idle
    /\ TicketIdle
    /\ Started
    /\ NoDownload
    /\ \E t \in Topics :
           /\ args \in [Peers -> {Open(t)}
                                 \cup { Join(x) : x \in TicketArgs(t) }]
           /\ args["A"] = Open(t)
           /\ args["B"].command = "Join"

MainNext ==
    \/ \E p \in Peers : MainParse(p)
    \/ \E p \in Peers, ok \in BOOLEAN : MainBind(p, ok)
    \/ Connect
    \/ \E p \in Peers, joined \in BOOLEAN : MainListen(p, joined)
    \/ \E p \in Peers, line \in Lines : MainLine(p, line)
    \/ \E p \in Peers : MainEof(p)
    \/ \E p \in Peers : Interrupt(p)
    \/ \E p \in Peers : MainShutdown(p)
    \/ \E p \in Peers : Handle(p)
    \/ \E p \in Peers : ReceiveLoop(p)
    \/ \E p \in Peers, i \in 1..MaxLines, ok \in BOOLEAN :
           BroadcastTask(p, i, ok)

MainSpec == MainInit /\ [][MainNext]_vars

(***************************************************************************)
(* The end-to-end scenario: A opens a room, B joins it with the ticket A   *)
(* printed, nobody interrupts a process and the transport accepts the      *)
(* binds, the joins and the broadcasts.  Every task that can run is run    *)
(* in the end (the runtime polls every ready task), and the transport      *)
(* connects two peers that wait for each other.                            *)
(***************************************************************************)
E2EInit ==
    /\ target = "main.rs"
    /\ New
    /\ Idle
    /\ TicketIdle
    /\ Started
    /\ NoDownload
    /\ \E t \in Topics :
           args = [p \in Peers |->
                      IF p = "A" THEN Open(t)
                      ELSE Join(fmt(TicketOf("A", t)))]

E2ENext ==
    \/ \E p \in Peers : MainParse(p)
    \/ \E p \in Peers : MainBind(p, TRUE)
    \/ Connect
    \/ \E p \in Peers : MainListen(p, TRUE)
    \/ \E p \in Peers, line \in Lines : MainLine(p, line)
    \/ \E p \in Peers : MainEof(p)
    \/ \E p \in Peers : Handle(p)
    \/ \E p \in Peers : ReceiveLoop(p)
    \/ \E p \in Peers, i \in 1..MaxLines : BroadcastTask(p, i, TRUE)

E2EFair ==
    /\ WF_vars(Connect)
    /\ \A p \in Peers :
           /\ WF_vars(MainParse(p))
           /\ WF_vars(MainBind(p, TRUE))
           /\ WF_vars(MainListen(p, TRUE))
           /\ WF_vars(Handle(p))
           /\ WF_vars(ReceiveLoop(p))
           /\ WF_vars(\E i \in 1..MaxLines : BroadcastTask(p, i, TRUE))

E2ESpec == E2EInit /\ [][E2ENext]_vars /\ E2EFair

\* the message main of peer p makes of a console line
Authored(p, line) == [from |-> Some(NodeIdOf[p]), text |-> line]

\* main of p has read the line and sent it to its relay
Submitted(p, line) == \E i \in 1..Len(lines[p]) : lines[p][i] = line

\* the printer of p was sent the message m
Printed(p, m) == \E i \in 1..Len(printer[p]) : printer[p][i] = m

\* C11: when A, which opened the topic, has submitted "hello" and B joins
\* with A's ticket, the relay of B eventually delivers
\* MessageBody{from: A, text: "hello"} to B's subscriber
C11_EndToEnd ==
    Submitted("A", Hello) ~> Printed("B", Authored("A", Hello))

\* C11 witness: B's printer has got A's "hello"
C11_Witness ==
    /\ Submitted("A", Hello)
    /\ Printed("B", Authored("A", Hello))
    /\ session["B"] = TicketOf("A", session["A"].topic)

(***************************************************************************)
(* Properties of the program.                                              *)
(***************************************************************************)
\* C12: an interrupt signal that arrives while the peer runs (its router
\* is up), wherever main is, leads to the clean shutdown: main goes on to
\* router.shutdown() and the process ends with code 0, the router told
\* to shut down before
C12_InterruptShutsDown ==
    /\ [][\A p \in Peers :
            (Interrupt(p) /\ router[p] = "running") =>
                /\ exit'[p] = "running"
                /\ pc'[p] = "shutdown"]_vars
    /\ [](\A p \in Peers :
            /\ exit[p] = "SIGINT" => router[p] = "none"
            /\ exit[p] = "0" => router[p] = "shutdown")

\* the command line of p holds a ticket that from_str rejects
BadTicket(p) ==
    /\ args[p].command = "Join"
    /\ from_str(args[p].ticket).status # "ok"

\* C13: when the ticket of `join` does not parse, main ends with an error
\* (exit code 1) at the parse, and nothing was or is started for that
\* peer: no endpoint and router, no topic joined, no relay, no task, no
\* message
C13_BadTicketFatal ==
    /\ [][\A p \in Peers :
            (BadTicket(p) /\ MainParse(p)) =>
                /\ exit'[p] = "1"
                /\ pc'[p] = "exited"]_vars
    /\ [](\A p \in Peers :
            BadTicket(p) =>
                /\ pc[p] \in {"parse", "exited"}
                /\ exit[p] \in {"running", "1", "SIGINT"}
                /\ router[p] = "none"
                /\ session[p] = NoSession
                /\ p2p[p] = NewActor
                /\ tasks[p] = NoTasks
                /\ lines[p] = <<>>
                /\ receiver[p] = <<>>)

\* C13 witness: a ticket with its last character lost was rejected and
\* the process has ended with code 1
C13_Witness ==
    \E p \in Peers :
        /\ BadTicket(p)
        /\ args[p].ticket # NotBase32
        /\ exit[p] = "1"

\* C14: every console line read is both sent to the relay as
\* SendMessage(MessageBody{from: local id, text: line}) and appended, as
\* that message, to the local History Store
C14_LinePublishedAndStored ==
    [][\A p \in Peers : \A line \in Lines :
          MainLine(p, line) =>
              /\ p2p'[p].mailbox = Append(p2p[p].mailbox,
                     Request("SendMessage", "-", Authored(p, line)))
                 \/ p2p[p].state # "running"
              /\ history'[p] = Append(history[p], Authored(p, line))]_vars

(***************************************************************************)
(* The bootstrap exchange of the design: the Bootstrap Responder writes    *)
(* the encoded History Store and half-closes, the Bootstrap Client reads   *)
(* to the end of the stream under a hard ceiling and decodes.  A message   *)
(* of the history is given by the length of its text (from is None).       *)
(***************************************************************************)
\* the client's ceiling, in bytes
Ceiling == 512000

\* bytes of a varint: one byte below 251, else a marker and a u16 or u32
VarintSize(n) == IF n < 251 THEN 1 ELSE IF n < 65536 THEN 3 ELSE 5

\* bytes of one MessageBody: the Option tag, the length prefix, the text
MessageSize(n) == 1 + VarintSize(n) + n

RECURSIVE Sum(_)
Sum(q) == IF q = <<>> THEN 0 ELSE Head(q) + Sum(Tail(q))

\* bytes of the encoded history: the count, then the messages
HistorySize(h) ==
    VarintSize(Len(h)) + Sum([i \in 1..Len(h) |-> MessageSize(h[i])])

\* text lengths: a short line, and the two around the ceiling (alone in a
\* history they encode to 512,000 and to 512,001 bytes)
TextSizes == {5, 511993, 511994}

Histories == SeqsUpTo(TextSizes, MaxHistory)

\* sizes of the pieces in which the stream hands the response over
Chunks == {1, 1200, 65536, 1048576}

Min(a, b) == IF a < b THEN a ELSE b

\* the messages of h that lie wholly within the first n bytes of its
\* encoding: what decoding n accumulated bytes can yield at most
RECURSIVE Within(_, _)
Within(h, n) ==
    IF h = <<>> \/ MessageSize(Head(h)) > n THEN <<>>
    ELSE <<Head(h)>> \o Within(Tail(h), n - MessageSize(Head(h)))

\* decode of the accumulated bytes: fails unless they are a whole history
DecodeHistory(h, n) ==
    IF n = HistorySize(h)
    THEN [status |-> "ok", history |-> Within(h, n - VarintSize(Len(h)))]
    ELSE [status |-> "BootstrapError", history |-> <<>>]

BootstrapError == [status |-> "BootstrapError", history |-> <<>>]

\* the client connects; the responder takes a snapshot of its History
\* Store, encodes it, writes it in full and half-closes
Respond(h) ==
    /\ download.status = "idle"
    /\ snapshot' = h
    /\ wire' = HistorySize(h)
    /\ download' = [status |-> "reading", history |-> <<>>]
    /\ UNCHANGED <<buffer, reads, relayVars, ticketVars, mainVars>>

\* variant: the client reads without a ceiling
ReadUnbounded(n) ==
    /\ download.status = "reading"
    /\ wire > 0
    /\ reads + 1 < MaxReads \/ n >= wire
    /\ reads' = reads + 1
    /\ buffer' = buffer + Min(n, wire)
    /\ wire' = wire - Min(n, wire)
    /\ UNCHANGED <<snapshot, download, relayVars, ticketVars, mainVars>>

\* the client reads the next piece; more than the ceiling is an error
Read(n) ==
    /\ download.status = "reading"
    /\ wire > 0
    /\ reads + 1 < MaxReads \/ n >= wire
    /\ reads' = reads + 1
    /\ IF buffer + Min(n, wire) > Ceiling
       THEN /\ download' = BootstrapError
            /\ UNCHANGED <<buffer, wire>>
       ELSE /\ buffer' = buffer + Min(n, wire)
            /\ wire' = wire - Min(n, wire)
            /\ UNCHANGED download
    /\ UNCHANGED <<snapshot, relayVars, ticketVars, mainVars>>

\* the stream is at its end: the client decodes what it accumulated
Finish ==
    /\ download.status = "reading"
    /\ wire = 0
    /\ download' = DecodeHistory(snapshot, buffer)
    /\ UNCHANGED <<snapshot, wire, buffer, reads, relayVars, ticketVars,
                   mainVars>>

BootInit ==
    /\ target = "main.rs"
    /\ New
    /\ Idle
    /\ TicketIdle
    /\ NoPeers

BootNext ==
    \/ \E h \in Histories : Respond(h)
    \/ \E n \in Chunks : Read(n)
    \/ Finish

BootSpec == BootInit /\ [][BootNext]_vars

\* C15: when the encoded history of the responder is longer than the
\* ceiling of 512,000 bytes, download fails with BootstrapError; the
\* client never holds more than the ceiling, and what download returns is
\* the whole history, never a part of it
C15_SizeCeiling ==
    /\ buffer <= Ceiling
    /\ (HistorySize(snapshot) > Ceiling
            /\ download.status \notin {"idle", "reading"})
           => download = BootstrapError
    /\ download.status = "ok" => download.history = snapshot

\* C15 witness: a history one byte over the ceiling was refused
C15_Witness ==
    /\ HistorySize(snapshot) = Ceiling + 1
    /\ download = BootstrapError
    /\ buffer > 0

(***************************************************************************)
(* Further properties of the relay and of the startup sequence.            *)
(***************************************************************************)
\* C16: whatever was subscribed, no handle is registered twice, and one
\* deliver gives a handle one copy of the message at most
C16_NoDuplicateSubscribers ==
    /\ [](\A h \in Handles : Count(subscribers, h) <= 1)
    /\ [][Delivers => \A h \in Handles : Copies(h) <= 1]_vars

\* C17: in main, SetSender is queued before any SendMessage, so no
\* SendMessage is handled while sender is None and no relay panics with
\* "no P2P sender"
C17_SenderBeforePublish ==
    /\ [](\A p \in Peers :
            /\ p2p[p].panicMsg # "no P2P sender"
            /\ \A i \in 1..Len(p2p[p].mailbox) :
                   p2p[p].mailbox[i].type = "SendMessage" =>
                       \/ p2p[p].sender = "Some"
                       \/ \E j \in 1..(i - 1) :
                              p2p[p].mailbox[j].type = "SetSender")
    /\ [][\A p \in Peers :
            (CanHandle(p, "SendMessage") /\ Handle(p)) =>
                /\ p2p[p].sender = "Some"
                /\ p2p'[p].state = "running"]_vars

\* C17 witness: a SendMessage waits in the mailbox of a relay whose
\* sender is still None
C17_Witness ==
    \E p \in Peers :
        /\ p2p[p].sender = "None"
        /\ \E i \in 1..Len(p2p[p].mailbox) :
               p2p[p].mailbox[i].type = "SendMessage"

\* C18: a subscriber is sent a message only when the relay handles the
\* GotMessage of a Received event that decoded, that message and at most
\* once for the event; no other step (publish, other events, receive
\* errors, payloads that do not decode) sends a subscriber anything
C18_NoSpuriousDelivery ==
    /\ [](deliveries + Requests("GotMessage") <= Len(Decoded))
    /\ [][sends' # sends =>
            /\ Delivers
            /\ deliveries' = deliveries + 1
            /\ IsPrefix(sends, sends')
            /\ \A i \in 1..Len(NewSends) :
                   NewSends[i].msg = Decoded[deliveries + 1].msg
            /\ \A h \in Handles : Copies(h) <= 1]_vars

\* C19: sender is None at first and stays Some once it is Some; the list
\* of subscribers only grows, by one entry at its end; deliver and publish
\* change neither, subscribe adds its handle and leaves sender alone
C19_RelayStateMonotonic ==
    /\ sender = "None"
    /\ [][/\ sender = "Some" => sender' = "Some"
          /\ IsPrefix(subscribers, subscribers')
          /\ Len(subscribers') <= Len(subscribers) + 1
          /\ ((Handling("GotMessage") \/ Handling("SendMessage"))
                  /\ mailbox' = Tail(mailbox))
                 => (subscribers' = subscribers /\ sender' = sender)
          /\ (Handling("Subscribe") /\ mailbox' = Tail(mailbox))
                 => /\ subscribers' = Append(subscribers, Head(mailbox).h)
                    /\ sender' = sender]_vars

\* C19 witness: with the sender set and two subscribers, of which one has
\* stopped, a message was delivered and a publish was handled
C19_Witness ==
    /\ sender = "Some"
    /\ Len(subscribers) >= 2
    /\ \E i \in 1..Len(subscribers) : subscribers[i] \in closed
    /\ deliveries > 0
    /\ Len(pending) + Len(sent) > 0

====
